---- MODULE Spec2Model ----
(***************************************************************************)
(* A model of src/2048_game.py: the board engine (create_board, compress,  *)
(* the four movers, can_move, has_won, game_over) as operators, and the    *)
(* Game2048 session (make_move, restart_game and the two modal dialogs     *)
(* make_move opens) as a state machine.                                    *)
(***************************************************************************)
EXTENDS Integers, Sequences, FiniteSets, TLC

VARIABLES
  size,      \* self.size
  board,     \* self.board
  score,     \* self.score (the score a mover returned, in the pure runs)
  game_won,  \* self.game_won
  pc,        \* where the session is: idle, or waiting in one of the dialogs
  op,        \* the last operation
  dir,       \* the direction of the last make_move
  budget,    \* steps left to a budgeted session
  line,      \* the row given to compress (pure runs)
  result,    \* the row compress returned (pure runs)
  input      \* the board given to a mover (pure runs)

vars == <<size, board, score, game_won, pc, op, dir, budget, line, result, input>>

\* ------------------------------------------------------------------ bounds

\* Calls of make_move and restart_game allowed to a budgeted session.
MaxSteps == 3
\* Pure-function inputs: tiles are 0 or 2^1 .. 2^MaxExp.
MaxExp == 2
\* Pure-function inputs: lines of length 0 .. MaxLen.
MaxLen == 4
\* Pure-function inputs: square boards of this size.
PureSize == 2

\* has_won's default target (target: int = 2048).
Target == 2048

\* "no budget": the session is explored exhaustively.
Unbounded == 0 - 1

Direction == {"up", "down", "left", "right"}

\* ------------------------------------------------------------ board engine

RECURSIVE Pow2(_)
Pow2(n) == IF n = 0 THEN 1 ELSE 2 * Pow2(n - 1)

\* create_board with one column too many (range(size + 1) in the inner loop).
create_boardWide(n) == [i \in 1..n |-> [j \in 1..(n + 1) |-> 0]]

\* [[0 for _ in range(size)] for _ in range(size)]; range(size) is empty
\* for size <= 0, and the function raises nothing.
create_board(n) == [i \in 1..n |-> [j \in 1..n |-> 0]]

\* The coordinates of the zero cells (the code lists them row-major; the only
\* use of the list is a uniform choice and an emptiness test).
get_empty_cells(b) ==
  {<<i, j>> \in (DOMAIN b) \X (IF b = <<>> THEN {} ELSE DOMAIN b[1]) : b[i][j] = 0}

\* new_board[i][j] = v on a copy of the board.
SetCell(b, i, j, v) ==
  [r \in DOMAIN b |-> [c \in DOMAIN b[r] |-> IF r = i /\ c = j THEN v ELSE b[r][c]]]

\* add_random_tile choosing among all the cells, not the empty ones.
add_random_tileAnywhere(b) ==
  {SetCell(b, i, j, v) : i \in DOMAIN b, j \in DOMAIN b[1], v \in {2, 4}}

\* Every board add_random_tile can return: random.choice over the empty
\* cells, 2 or 4 by random.random(); the board itself when it is full.
add_random_tile(b) ==
  IF get_empty_cells(b) = {}
  THEN {b}
  ELSE {SetCell(b, c[1], c[2], v) : c \in get_empty_cells(b), v \in {2, 4}}

\* Every board initialize_game can return: two tiles added one after another.
initialize_game(n) ==
  UNION {add_random_tile(b1) : b1 \in add_random_tile(create_board(n))}

\* [num for num in row if num != 0]
NonZero(row) == SelectSeq(row, LAMBDA num : num # 0)

\* new_row[i] = v for a 1-based index i.
SetItem(s, i, v) == [k \in 1..Len(s) |-> IF k = i THEN v ELSE s[k]]

\* pop one place early: pop(i) for pop(i + 1) removes the merged tile.
PopMerged(s, i) ==
  [k \in 1..(Len(s) - 1) |-> IF k < i - 1 THEN s[k] ELSE s[k + 1]]

\* new_row.pop(i) for a 1-based index i.
Pop(s, i) == [k \in 1..(Len(s) - 1) |-> IF k < i THEN s[k] ELSE s[k + 1]]

\* The loop with i advanced only when nothing merged: a merged tile merges
\* again with its next neighbour.
RECURSIVE MergeLoopRemerge(_, _, _)
MergeLoopRemerge(new_row, i, sc) ==
  IF i < Len(new_row)
  THEN IF new_row[i] = new_row[i + 1]
       THEN MergeLoopRemerge(Pop(SetItem(new_row, i, 2 * new_row[i]), i + 1),
                             i, sc + 2 * new_row[i])
       ELSE MergeLoopRemerge(new_row, i + 1, sc)
  ELSE <<new_row, sc>>

\* The loop with the score added outside the if: every tile visited scores.
RECURSIVE MergeLoopScoresAll(_, _, _)
MergeLoopScoresAll(new_row, i, sc) ==
  IF i < Len(new_row)
  THEN IF new_row[i] = new_row[i + 1]
       THEN MergeLoopScoresAll(Pop(SetItem(new_row, i, 2 * new_row[i]), i + 1),
                               i + 1, sc + 2 * new_row[i])
       ELSE MergeLoopScoresAll(new_row, i + 1, sc + new_row[i])
  ELSE <<new_row, sc>>

\* The while loop of compress, from index i (1-based) with the row and the
\* score so far: on equal neighbours double new_row[i], add it to the score
\* and pop new_row[i+1]; i advances in both cases.
RECURSIVE MergeLoop(_, _, _)
MergeLoop(new_row, i, sc) ==
  IF i < Len(new_row)
  THEN IF new_row[i] = new_row[i + 1]
       THEN MergeLoop(Pop(SetItem(new_row, i, 2 * new_row[i]), i + 1),
                      i + 1, sc + 2 * new_row[i])
       ELSE MergeLoop(new_row, i + 1, sc)
  ELSE <<new_row, sc>>

\* new_row.extend([0] * (len(row) - len(new_row)))
Pad(new_row, n) ==
  new_row \o [k \in 1..(n - Len(new_row)) |-> 0]

compress(row) ==
  LET m == MergeLoop(NonZero(row), 1, 0)
  IN  <<Pad(m[1], Len(row)), m[2]>>

RECURSIVE SumSeq(_)
SumSeq(s) == IF s = <<>> THEN 0 ELSE s[1] + SumSeq(Tail(s))

move_left(b) ==
  <<[r \in DOMAIN b |-> compress(b[r])[1]],
    SumSeq([r \in DOMAIN b |-> compress(b[r])[2]])>>

Min(S) == CHOOSE x \in S : \A y \in S : x <= y

\* [list(row) for row in zip(*board)]: zip stops at the shortest row.
transpose(b) ==
  IF b = <<>>
  THEN <<>>
  ELSE [j \in 1..Min({Len(b[r]) : r \in DOMAIN b}) |-> [i \in DOMAIN b |-> b[i][j]]]

\* row[::-1]
Reverse(s) == [k \in 1..Len(s) |-> s[Len(s) + 1 - k]]

reverse_rows(b) == [r \in DOMAIN b |-> Reverse(b[r])]

move_right(b) ==
  LET m == move_left(reverse_rows(b))
  IN  <<reverse_rows(m[1]), m[2]>>

move_up(b) ==
  LET m == move_left(transpose(b))
  IN  <<transpose(m[1]), m[2]>>

move_down(b) ==
  LET m == move_right(transpose(b))
  IN  <<transpose(m[1]), m[2]>>

\* handle_keypress's table from keys to movers, applied to a board.
move_function(d, b) ==
  CASE d = "up" -> move_up(b)
    [] d = "down" -> move_down(b)
    [] d = "left" -> move_left(b)
    [] d = "right" -> move_right(b)

boards_equal(board1, board2) == board1 = board2

\* can_move without the vertical loop.
can_moveRowsOnly(b) ==
  \/ get_empty_cells(b) # {}
  \/ \E r \in DOMAIN b : \E i \in 1..(Len(b[r]) - 1) : b[r][i] = b[r][i + 1]

\* Any empty cell, or two equal horizontal neighbours, or two equal vertical
\* neighbours (columns counted on the first row).
can_move(b) ==
  \/ get_empty_cells(b) # {}
  \/ \E r \in DOMAIN b : \E i \in 1..(Len(b[r]) - 1) : b[r][i] = b[r][i + 1]
  \/ \E col \in 1..Len(b[1]) : \E row \in 1..(Len(b) - 1) :
        b[row][col] = b[row + 1][col]

\* any(target in row for row in board)
has_won(b, target) == \E r \in DOMAIN b : \E c \in DOMAIN b[r] : b[r][c] = target

game_over(b) == ~can_move(b)

\* ------------------------------------------------------------ the session

pure == <<line, result, input>>

NoPure == line = <<>> /\ result = <<>> /\ input = <<>>

\* One call of make_move uses one unit of a budgeted session's budget, and
\* none of an unbudgeted one's.
Spend == /\ budget # 0
         /\ budget' = IF budget > 0 THEN budget - 1 ELSE budget

\* A budgeted session is followed up to its restart: the new game is one of
\* the new sessions, and is not followed again.
SpendAll == budget' = IF budget > 0 THEN 0 ELSE budget

\* Game2048.__init__: the board of initialize_game(size), score 0, no win.
Constructed(n) ==
  /\ size = n
  /\ board \in initialize_game(n)
  /\ score = 0
  /\ game_won = FALSE
  /\ pc = "idle"
  /\ op = "new"
  /\ dir = "none"
  /\ NoPure

\* make_move when the mover returns the board it was given: nothing is
\* assigned (lines 327-331).
MoveRejected(d) ==
  /\ pc = "idle"
  /\ boards_equal(board, move_function(d, board)[1])
  /\ Spend
  /\ op' = "rejected"
  /\ dir' = d
  /\ UNCHANGED <<size, board, score, game_won, pc, pure>>

\* make_move without the boards_equal test: every move is committed.
MoveUnchecked(d) ==
  /\ pc = "idle"
  /\ Spend
  /\ board' \in add_random_tile(move_function(d, board)[1])
  /\ score' = score + move_function(d, board)[2]
  /\ IF ~game_won /\ has_won(board', Target)
     THEN game_won' = TRUE /\ pc' = "won_dialog"
     ELSE /\ game_won' = game_won
          /\ pc' = IF game_over(board') THEN "over_dialog" ELSE "idle"
  /\ op' = "moved"
  /\ dir' = d
  /\ UNCHANGED <<size, pure>>

\* make_move without the "not self.game_won" test: the win dialog opens
\* whenever the target is on the board.
MoveAcceptedAnyWin(d) ==
  /\ pc = "idle"
  /\ ~boards_equal(board, move_function(d, board)[1])
  /\ Spend
  /\ board' \in add_random_tile(move_function(d, board)[1])
  /\ score' = score + move_function(d, board)[2]
  /\ IF has_won(board', Target)
     THEN game_won' = TRUE /\ pc' = "won_dialog"
     ELSE /\ game_won' = game_won
          /\ pc' = IF game_over(board') THEN "over_dialog" ELSE "idle"
  /\ op' = "moved"
  /\ dir' = d
  /\ UNCHANGED <<size, pure>>

\* make_move when the board changed: commit, add the score, spawn a tile
\* (lines 332-334), then classify (lines 338-348): the win dialog opens when
\* the flag is unset and the target is on the board, else the game-over
\* dialog when no move is left.  Both dialogs are modal: the handler waits in
\* askyesno for the answer.
MoveAccepted(d) ==
  /\ pc = "idle"
  /\ ~boards_equal(board, move_function(d, board)[1])
  /\ Spend
  /\ board' \in add_random_tile(move_function(d, board)[1])
  /\ score' = score + move_function(d, board)[2]
  /\ IF ~game_won /\ has_won(board', Target)
     THEN game_won' = TRUE /\ pc' = "won_dialog"
     ELSE /\ game_won' = game_won
          /\ pc' = IF game_over(board') THEN "over_dialog" ELSE "idle"
  /\ op' = "moved"
  /\ dir' = d
  /\ UNCHANGED <<size, pure>>

\* restart_game without "self.score = 0".
ResetKeepsScore ==
  /\ board' \in initialize_game(size)
  /\ score' = score
  /\ game_won' = FALSE

\* restart_game's assignments (lines 358-360).
Reset ==
  /\ board' \in initialize_game(size)
  /\ score' = 0
  /\ game_won' = FALSE

\* The New Game button (command=self.restart_game).
restart_game ==
  /\ pc = "idle"
  /\ budget # 0
  /\ SpendAll
  /\ Reset
  /\ op' = "restart"
  /\ UNCHANGED <<size, pc, dir, pure>>

\* "Continue playing?" answered yes: make_move returns.
WonContinue ==
  /\ pc = "won_dialog"
  /\ UNCHANGED budget
  /\ pc' = "idle"
  /\ op' = "answer"
  /\ UNCHANGED <<size, board, score, game_won, dir, pure>>

\* "Continue playing?" answered no: restart_game (lines 344-345).
WonRestart ==
  /\ pc = "won_dialog"
  /\ SpendAll
  /\ Reset
  /\ pc' = "idle"
  /\ op' = "restart"
  /\ UNCHANGED <<size, dir, pure>>

\* "Play again?" answered no: make_move returns with the board as it is.
OverStay ==
  /\ pc = "over_dialog"
  /\ UNCHANGED budget
  /\ pc' = "idle"
  /\ op' = "answer"
  /\ UNCHANGED <<size, board, score, game_won, dir, pure>>

\* "Play again?" answered yes: restart_game (lines 353-354).
OverRestart ==
  /\ pc = "over_dialog"
  /\ SpendAll
  /\ Reset
  /\ pc' = "idle"
  /\ op' = "restart"
  /\ UNCHANGED <<size, dir, pure>>

Next ==
  \/ \E d \in Direction : MoveRejected(d)
  \/ \E d \in Direction : MoveAccepted(d)
  \/ restart_game
  \/ WonContinue
  \/ WonRestart
  \/ OverStay
  \/ OverRestart

\* Board sizes of the new sessions explored to the end, and of those
\* explored for MaxSteps steps.
SmallSizes == {2}
BudgetSizes == {3}

\* Two positions late in a game on the 4 x 4 board of main(), one merge from
\* the target (no tile of 2048 is within reach of the smaller boards), with
\* the scores of the merges that built their tiles.  In the second the board
\* can be full and blocked right after the winning merge.
LateGames ==
  { [board |-> << <<1024, 1024, 8, 2>>,
                  <<4, 16, 32, 4>>,
                  <<2, 8, 64, 2>>,
                  <<4, 2, 16, 8>> >>, score |-> 19024],
    [board |-> << <<1024, 1024, 8, 16>>,
                  <<4, 16, 32, 8>>,
                  <<2, 8, 64, 2>>,
                  <<4, 2, 16, 8>> >>, score |-> 19088] }

\* A session some way into a game.
InGame(g) ==
  /\ size = Len(g.board)
  /\ board = g.board
  /\ score = g.score
  /\ game_won = FALSE
  /\ pc = "idle"
  /\ op = "new"
  /\ dir = "none"
  /\ NoPure

Init ==
  \/ \E n \in SmallSizes : Constructed(n) /\ budget = Unbounded
  \/ \E n \in BudgetSizes : Constructed(n) /\ budget = MaxSteps
  \/ \E g \in LateGames : InGame(g) /\ budget = MaxSteps

Spec == Init /\ [][Next]_vars

\* The same, with the sizes below 2 that the constructor also accepts.
InitAnySize ==
  \/ Init
  \/ \E n \in {0, 1} : Constructed(n) /\ budget = Unbounded

SpecAnySize == InitAnySize /\ [][Next]_vars

\* ------------------------------------------------- the engine on its own

Tiles == {0} \cup {Pow2(e) : e \in 1..MaxExp}

Lines == UNION {[1..n -> Tiles] : n \in 0..MaxLen}

Boards == [1..PureSize -> [1..PureSize -> Tiles]]

PureFrame ==
  /\ size = 0 /\ game_won = FALSE /\ pc = "pure" /\ budget = 0

\* An input for compress, or an input for the movers.
InitPure ==
  /\ PureFrame
  /\ op = "input"
  /\ dir = "none"
  /\ score = 0
  /\ result = <<>>
  /\ input = <<>>
  /\ \/ line \in Lines /\ board = <<>>
     \/ line = <<>> /\ board \in Boards

\* new_row, score = compress(line)
CompressLine ==
  /\ pc = "pure" /\ op = "input" /\ board = <<>>
  /\ result' = compress(line)[1]
  /\ score' = compress(line)[2]
  /\ op' = "compress"
  /\ UNCHANGED <<size, board, game_won, pc, dir, budget, line, input>>

\* board, score = move_function(board)
ApplyMover(d) ==
  /\ pc = "pure" /\ op = "input" /\ board # <<>>
  /\ input' = board
  /\ board' = move_function(d, board)[1]
  /\ score' = move_function(d, board)[2]
  /\ op' = "mover"
  /\ dir' = d
  /\ UNCHANGED <<size, game_won, pc, budget, line, result>>

NextPure ==
  \/ CompressLine
  \/ \E d \in Direction : ApplyMover(d)

SpecPure == InitPure /\ [][NextPure]_vars

\* ------------------------------------------------------------------ claims

RECURSIVE BoardSum(_)
BoardSum(b) == IF b = <<>> THEN 0 ELSE SumSeq(b[1]) + BoardSum(Tail(b))

\* The step is a call of make_move.
MoveStep == op' \in {"moved", "rejected"}

\* The cells in which two boards of one shape differ.
Changed(b1, b2) ==
  {<<i, j>> \in (DOMAIN b1) \X (DOMAIN b1[1]) : b1[i][j] # b2[i][j]}

\* C1: a make_move whose mover returns the current board is rejected: the
\* board, the score and the win flag stay as they were, no tile is spawned and
\* no dialog opens (so the same direction again is rejected again).
C1_RejectedMoveChangesNothing ==
  [][(MoveStep /\ boards_equal(board, move_function(dir', board)[1]))
       => /\ op' = "rejected"
          /\ board' = board
          /\ score' = score
          /\ game_won' = game_won
          /\ pc' = pc]_vars

\* A move was rejected in a game that has scored.
C1_Witness == op = "rejected" /\ score > 0 /\ get_empty_cells(board) # {}

\* C2: on every board a session reaches, can_move is true exactly when one of
\* the four movers returns a board different from it.
C2_CanMoveIffSomeMoverChanges ==
  pc # "pure" =>
    (can_move(board) <=> \E d \in Direction : move_function(d, board)[1] # board)

\* A full board that can still move, reached by a move.
C2_Witness ==
  /\ op = "moved"
  /\ get_empty_cells(board) = {}
  /\ can_move(board)

\* The reference algorithm of C3, on its own terms: drop the zeros, merge
\* equal neighbours once from the left, pad with zeros.
RECURSIVE RefDropZeros(_)
RefDropZeros(s) ==
  IF s = <<>> THEN <<>>
  ELSE IF Head(s) = 0 THEN RefDropZeros(Tail(s))
  ELSE <<Head(s)>> \o RefDropZeros(Tail(s))

RECURSIVE RefMerge(_)
RefMerge(s) ==
  IF Len(s) < 2 THEN s
  ELSE IF s[1] = s[2] THEN <<s[1] + s[2]>> \o RefMerge(Tail(Tail(s)))
  ELSE <<s[1]>> \o RefMerge(Tail(s))

\* The tiles the merge pass creates.
RECURSIVE RefCreated(_)
RefCreated(s) ==
  IF Len(s) < 2 THEN <<>>
  ELSE IF s[1] = s[2] THEN <<s[1] + s[2]>> \o RefCreated(Tail(Tail(s)))
  ELSE RefCreated(Tail(s))

RECURSIVE RefPad(_, _)
RefPad(s, n) == IF Len(s) >= n THEN s ELSE RefPad(Append(s, 0), n)

\* C3: compress returns the line and the score of the reference algorithm:
\* zeros dropped in order, one left-to-right pass merging equal neighbours
\* into their sum (a merged tile is not merged again), zeros padded to the
\* input's length; the score is the sum of the tiles created.
C3_CompressIsReference ==
  op = "compress" =>
    /\ result = RefPad(RefMerge(RefDropZeros(line)), Len(line))
    /\ score = SumSeq(RefCreated(RefDropZeros(line)))

\* compress was applied to [2,2,4,0] and gave [4,4,0,0] with score 4.
C3_Witness ==
  /\ op = "compress"
  /\ line = <<2, 2, 4, 0>>
  /\ result = <<4, 4, 0, 0>>
  /\ score = 4

\* The step opens the win dialog (the outcome Won).
WonSignalled == pc = "idle" /\ pc' = "won_dialog"

\* C4: Won is signalled exactly by an accepted move made with the win flag
\* unset whose board, after the spawn, holds 2048; that move sets the flag,
\* only a restart clears it, and an accepted move made with the flag set ends
\* in Continue or Over.
C4_WonSignalledOnce ==
  [][/\ WonSignalled <=>
          (op' = "moved" /\ ~game_won /\ has_won(board', Target))
     /\ WonSignalled => game_won'
     /\ (game_won /\ ~game_won') => op' = "restart"
     /\ (game_won /\ op' = "moved") => pc' \in {"idle", "over_dialog"}]_vars

\* A later accepted move in a won game: 2048 still on the board, no dialog.
C4_Witness ==
  /\ game_won
  /\ has_won(board, Target)
  /\ op = "moved"
  /\ pc = "idle"

\* C5: no session of a size below 2 exists: construction fails with
\* InvalidSizeError.
C5_SizeBelowTwoRejected == size < 2 => pc = "InvalidSizeError"

\* C6: a mover returns a board whose cells sum to the sum of its input.
C6_MoverKeepsSum == op = "mover" => BoardSum(board) = BoardSum(input)

\* A mover merged tiles.
C6_Witness == op = "mover" /\ score > 0

\* C7: with game_over(board) every make_move is rejected and nothing but a
\* restart changes the board or the score; a restart, from any state, leaves
\* score 0, the win flag unset and a board that can move, with no dialog open.
C7_OverUntilRestart ==
  [][/\ (game_over(board) /\ MoveStep) => op' = "rejected"
     /\ (game_over(board) /\ op' # "restart") => (board' = board /\ score' = score)
     /\ op' = "restart" =>
          (score' = 0 /\ ~game_won' /\ pc' = "idle" /\ can_move(board'))]_vars

\* A move was tried, and rejected, on a board that is over, after scoring.
C7_Witness == game_over(board) /\ op = "rejected" /\ score > 0

IsTile(v, n) == v = 0 \/ \E e \in 1..(n * n + 1) : v = Pow2(e)

\* C8: the session's board is size x size, and each cell is 0 or a power of
\* two >= 2 (at most 2^(size*size+1) fits a board of size*size cells).
C8_BoardWellFormed ==
  pc # "pure" =>
    /\ Len(board) = size
    /\ \A r \in DOMAIN board :
         /\ Len(board[r]) = size
         /\ \A c \in DOMAIN board[r] : IsTile(board[r][c], size)

\* A board after a merge and a spawn.
C8_Witness == op = "moved" /\ score > 0 /\ size = 3

\* C9: a mover that returns its input returns score 0.
C9_NoOpScoresZero == (op = "mover" /\ board = input) => score = 0

\* A mover left a full board as it was.
C9_Witness == op = "mover" /\ board = input /\ get_empty_cells(board) = {}

\* C10: an accepted move leaves an empty cell on the moved board; the spawn
\* changes exactly one cell of it, from 0 to 2 or 4, and the board's sum grows
\* by 2 or 4.
C10_AcceptedMoveSpawnsOneTile ==
  [][op' = "moved" =>
       \A moved \in {move_function(dir', board)[1]} :
         /\ get_empty_cells(moved) # {}
         /\ \E c \in get_empty_cells(moved) :
              /\ board'[c[1]][c[2]] \in {2, 4}
              /\ Changed(moved, board') = {c}
         /\ BoardSum(board') - BoardSum(board) \in {2, 4}]_vars

\* The spawn after an accepted move filled the last empty cell and ended
\* the game.
C10_Witness ==
  /\ op = "moved"
  /\ get_empty_cells(board) = {}
  /\ pc = "over_dialog"

====
